---- MODULE Spec2Model ----
(***************************************************************************)
(* Model of the library management core: the Book and Member entities,     *)
(* the Library orchestration (add_book, add_member, borrow_book,           *)
(* return_book, _calculate_fine) and the borrowing_records / books /       *)
(* members tables of the sqlite Database it writes through.                *)
(*                                                                         *)
(* Time is an integer number of ticks, TicksPerDay ticks to a day, so that *)
(* fractions of a day exist and timedelta.days (whole days) is a division. *)
(* Every Database call can fail: "IntegrityError" and "OperationalError"   *)
(* are the two kinds of sqlite3.Error the except clauses tell apart.       *)
(***************************************************************************)
EXTENDS Integers, Sequences, FiniteSets, TLC

\* ------------------------------------------------------------------ bounds
ISBNS == {"B1"}
MEMBER_IDS == {"M1", "M2"}
CALLERS == {"T1", "T2"}
ROSTER == {"M2"}
MaxCopies == 2
MaxRecords == 3
BOOK_IDS == {"B1", "B2"}
STATS_ISBNS == {"B1", "B2", "B3"}
MaxFines == 3
MaxCalls == 2
TicksPerDay == 2

\* ------------------------------------------------------- program constants
BORROWING_PERIOD_DAYS == 14
DAILY_FINE == 1

PeriodTicks == BORROWING_PERIOD_DAYS * TicksPerDay
\* the clock is read half a day past one borrowing period, or half a day past
\* two, after the previous reading: a loan is then returned at once, on its due
\* date exactly, a fraction of a day late, or 14 days and a fraction late
ClockSteps == {PeriodTicks + 1, 2 * PeriodTicks + 1}
MaxTime == 2 * PeriodTicks + 1

NULL == -1
NoFine == NULL
NoBook == NULL
NoArg == ""
NoStats ==
    [total_members |-> NULL, active_members |-> NULL, total_books_inventory |-> NULL,
     borrowed_books |-> NULL, available_books |-> NULL, unique_titles |-> NULL]
Faults == {"none", "IntegrityError", "OperationalError"}

VARIABLES
    books,              \* Library.books: isbn -> Book
    members,            \* Library.members: member_id -> Member
    db_books,           \* table books
    db_members,         \* table members
    borrowing_records,  \* table borrowing_records, record_id = index
    now,                \* datetime.now()
    last,               \* the last call of a core operation and its outcome
    frames,             \* caller -> the call it is in: position, arguments, locals
    overlapped          \* a call has started while another caller was in one

vars == <<books, members, db_books, db_members, borrowing_records, now, last,
          frames, overlapped>>

\* ---------------------------------------------------------------- helpers
Range(s) == {s[k] : k \in 1..Len(s)}

\* list.remove(x): drops the first occurrence of x
ListRemove(s, x) ==
    LET k == CHOOSE j \in 1..Len(s) : s[j] = x /\ \A l \in 1..(j-1) : s[l] # x
    IN  SubSeq(s, 1, k-1) \o SubSeq(s, k+1, Len(s))

\* ------------------------------------------------------------ Book entity
Book(total_copies) ==
    [total_copies |-> total_copies, available_copies |-> total_copies]

\* borrow_copy with the decrement moved ahead of the test
borrow_copy_decrement_first(b) ==
    [ok |-> b.available_copies > 0, book |-> [b EXCEPT !.available_copies = @ - 1]]

\* borrow_copy that reports success without taking a copy
borrow_copy_no_decrement(b) ==
    [ok |-> b.available_copies > 0, book |-> b]

\* borrow_copy testing available_copies >= 0
borrow_copy_off_by_one(b) ==
    IF b.available_copies >= 0
    THEN [ok |-> TRUE, book |-> [b EXCEPT !.available_copies = @ - 1]]
    ELSE [ok |-> FALSE, book |-> b]

borrow_copy(b) ==
    IF b.available_copies > 0
    THEN [ok |-> TRUE, book |-> [b EXCEPT !.available_copies = @ - 1]]
    ELSE [ok |-> FALSE, book |-> b]

\* return_copy without its over-return guard
return_copy_unguarded(b) ==
    [ok |-> TRUE, book |-> [b EXCEPT !.available_copies = @ + 1]]

\* return_copy testing available_copies < total_copies - 1
return_copy_off_by_one(b) ==
    IF b.available_copies < b.total_copies - 1
    THEN [ok |-> TRUE, book |-> [b EXCEPT !.available_copies = @ + 1]]
    ELSE [ok |-> FALSE, book |-> b]

return_copy(b) ==
    IF b.available_copies < b.total_copies
    THEN [ok |-> TRUE, book |-> [b EXCEPT !.available_copies = @ + 1]]
    ELSE [ok |-> FALSE, book |-> b]

\* ---------------------------------------------------------- Member entity
Member(is_active, total_fines) ==
    [is_active |-> is_active, borrowed_books |-> <<>>, total_fines |-> total_fines]

\* add_borrowed_book without its membership test
add_borrowed_book_always_appends(mem, book_id) ==
    [mem EXCEPT !.borrowed_books = Append(@, book_id)]

add_borrowed_book(mem, book_id) ==
    IF book_id \notin Range(mem.borrowed_books)
    THEN [mem EXCEPT !.borrowed_books = Append(@, book_id)]
    ELSE mem

remove_borrowed_book(mem, book_id) ==
    IF book_id \in Range(mem.borrowed_books)
    THEN [ok |-> TRUE, member |-> [mem EXCEPT !.borrowed_books = ListRemove(@, book_id)]]
    ELSE [ok |-> FALSE, member |-> mem]

add_fine(mem, amount) ==
    [mem EXCEPT !.total_fines = @ + amount]

\* pay_fine without its overpayment test
pay_fine_unchecked(mem, amount) ==
    [ok |-> TRUE, member |-> [mem EXCEPT !.total_fines = @ - amount]]

pay_fine(mem, amount) ==
    IF amount <= mem.total_fines
    THEN [ok |-> TRUE, member |-> [mem EXCEPT !.total_fines = @ - amount]]
    ELSE [ok |-> FALSE, member |-> mem]

\* --------------------------------------------------------------- Database
\* db_add_book that reports success for an INSERT that was never committed
db_add_book_lost_insert(tbl, isbn, total_copies, fault) ==
    LET err == IF isbn \in DOMAIN tbl THEN "IntegrityError" ELSE fault
    IN  IF err = "none"
        THEN [result |-> "True", table |-> tbl]
        ELSE IF err = "IntegrityError"
        THEN [result |-> "False", table |-> tbl]
        ELSE [result |-> "raise", table |-> tbl]

\* INSERT INTO books: a duplicate primary key is an IntegrityError, which
\* add_book turns into False; any other sqlite3.Error is not caught.
db_add_book(tbl, isbn, total_copies, fault) ==
    LET err == IF isbn \in DOMAIN tbl THEN "IntegrityError" ELSE fault
    IN  IF err = "none"
        THEN [result |-> "True", table |-> (isbn :> Book(total_copies)) @@ tbl]
        ELSE IF err = "IntegrityError"
        THEN [result |-> "False", table |-> tbl]
        ELSE [result |-> "raise", table |-> tbl]

\* INSERT INTO members: is_active defaults to 1, total_fines to 0.0
db_add_member(tbl, member_id, fault) ==
    LET err == IF member_id \in DOMAIN tbl THEN "IntegrityError" ELSE fault
    IN  IF err = "none"
        THEN [result |-> "True",
              table |-> (member_id :> [is_active |-> TRUE, total_fines |-> 0]) @@ tbl]
        ELSE IF err = "IntegrityError"
        THEN [result |-> "False", table |-> tbl]
        ELSE [result |-> "raise", table |-> tbl]

\* INSERT INTO borrowing_records: every sqlite3.Error becomes False
record_borrowing(recs, member_id, isbn, due_date, t, fault) ==
    IF fault = "none"
    THEN [ok |-> TRUE,
          records |-> Append(recs, [record_id |-> Len(recs) + 1,
                                    member_id |-> member_id,
                                    isbn |-> isbn,
                                    borrow_date |-> t,
                                    due_date |-> due_date,
                                    return_date |-> NULL,
                                    fine_paid |-> 0])]
    ELSE [ok |-> FALSE, records |-> recs]

\* record_return whose WHERE clause forgets member_id
record_return_any_member(recs, member_id, isbn, fine_paid, t, fault) ==
    IF fault = "none"
    THEN [ok |-> TRUE,
          records |-> [k \in 1..Len(recs) |->
                         IF recs[k].isbn = isbn /\ recs[k].return_date = NULL
                         THEN [recs[k] EXCEPT !.return_date = t, !.fine_paid = fine_paid]
                         ELSE recs[k]]]
    ELSE [ok |-> FALSE, records |-> recs]

\* record_return whose WHERE clause forgets return_date IS NULL
record_return_all_records(recs, member_id, isbn, fine_paid, t, fault) ==
    IF fault = "none"
    THEN [ok |-> TRUE,
          records |-> [k \in 1..Len(recs) |->
                         IF recs[k].member_id = member_id /\ recs[k].isbn = isbn
                         THEN [recs[k] EXCEPT !.return_date = t, !.fine_paid = fine_paid]
                         ELSE recs[k]]]
    ELSE [ok |-> FALSE, records |-> recs]

\* record_return whose UPDATE is kept although the commit failed
record_return_partial_write(recs, member_id, isbn, fine_paid, t, fault) ==
    [ok |-> fault = "none",
     records |-> [k \in 1..Len(recs) |->
                    IF /\ recs[k].member_id = member_id
                       /\ recs[k].isbn = isbn
                       /\ recs[k].return_date = NULL
                    THEN [recs[k] EXCEPT !.return_date = t, !.fine_paid = fine_paid]
                    ELSE recs[k]]]

\* UPDATE borrowing_records SET return_date, fine_paid
\* WHERE member_id = ? AND isbn = ? AND return_date IS NULL
record_return(recs, member_id, isbn, fine_paid, t, fault) ==
    IF fault = "none"
    THEN [ok |-> TRUE,
          records |-> [k \in 1..Len(recs) |->
                         IF /\ recs[k].member_id = member_id
                            /\ recs[k].isbn = isbn
                            /\ recs[k].return_date = NULL
                         THEN [recs[k] EXCEPT !.return_date = t, !.fine_paid = fine_paid]
                         ELSE recs[k]]]
    ELSE [ok |-> FALSE, records |-> recs]

\* the rows of: WHERE member_id = ? AND isbn = ? AND return_date IS NULL
OpenRecords(recs, member_id, isbn) ==
    {k \in 1..Len(recs) : /\ recs[k].member_id = member_id
                          /\ recs[k].isbn = isbn
                          /\ recs[k].return_date = NULL}

\* ORDER BY borrow_date DESC LIMIT 1: any row with the greatest borrow_date
MostRecentOpen(recs, member_id, isbn) ==
    {k \in OpenRecords(recs, member_id, isbn) :
        \A j \in OpenRecords(recs, member_id, isbn) :
            recs[j].borrow_date <= recs[k].borrow_date}

\* fine_for charging every started day
fine_for_started_days(due_date, t) ==
    IF t > due_date
    THEN ((t - due_date + TicksPerDay - 1) \div TicksPerDay) * DAILY_FINE
    ELSE 0

\* the fine for one due date: (now - due_date).days * DAILY_FINE when overdue
fine_for(due_date, t) ==
    IF t > due_date THEN ((t - due_date) \div TicksPerDay) * DAILY_FINE ELSE 0

\* Library._calculate_fine once its query has answered: the fines the row
\* picked by the query can give (one value unless borrow dates tie)
calculate_fine(recs, member_id, isbn, t) ==
    IF MostRecentOpen(recs, member_id, isbn) = {}
    THEN {0}
    ELSE {fine_for(recs[k].due_date, t) : k \in MostRecentOpen(recs, member_id, isbn)}

\* -------------------------------------------------------- Library._load_from_db
load_books(tbl) ==
    [i \in DOMAIN tbl |-> [total_copies |-> tbl[i].total_copies,
                           available_copies |-> tbl[i].available_copies]]

load_members(tbl) ==
    [m \in DOMAIN tbl |-> Member(tbl[m].is_active, tbl[m].total_fines)]

\* ------------------------------------------------------------------ state
\* what the caller of the last operation saw: the operation, whether it
\* returned success, whether an exception left it, the message of its result
\* (or the exception), the fine return_book computed and, when the call got
\* past its checks, the available_copies it found on its book; stats is the
\* dictionary get_library_stats returned
Call(op, ok, raised, msg, fine, available_before) ==
    [op |-> op, ok |-> ok, raised |-> raised, msg |-> msg, fine |-> fine,
     available_before |-> available_before, stats |-> NoStats]

\* a caller that is in no call
Idle == [pc |-> "idle", member_id |-> NoArg, isbn |-> NoArg, tmp |-> NULL,
         fine |-> NoFine, calls |-> 0]

\* one caller at a time: every operation below runs from call to return in
\* one step, so no caller is ever inside a call
OneCaller == frames = [t \in CALLERS |-> Idle] /\ overlapped = FALSE

\* Library(db_path) on a database that holds no book and no borrowing record
\* yet; its members table already holds the rows of ROSTER, each active or not
\* (is_active is only ever read, at load time).
Init ==
    /\ \E act \in [ROSTER -> BOOLEAN] :
         db_members = [m \in ROSTER |-> [is_active |-> act[m], total_fines |-> 0]]
    /\ db_books = <<>>
    /\ borrowing_records = <<>>
    /\ books = load_books(db_books)
    /\ members = load_members(db_members)
    /\ now = 0
    /\ last = [op |-> "none", ok |-> TRUE,
               raised |-> FALSE, msg |-> "", fine |-> NoFine,
               available_before |-> NoBook, stats |-> NoStats]
    /\ OneCaller

\* ---------------------------------------------------------------- Library
\* Library.add_book(isbn, ..., total_copies); fault is what the INSERT of
\* Database.add_book runs into
add_book(isbn, total_copies) ==
    /\ UNCHANGED <<members, db_members, borrowing_records, now>>
    /\ IF isbn \in DOMAIN books
       THEN /\ last' = Call("add_book", FALSE, FALSE, "False", NoFine, NoBook)
            /\ UNCHANGED <<books, db_books>>
       ELSE \E fault \in Faults :
              LET w == db_add_book(db_books, isbn, total_copies, fault)
              IN  /\ db_books' = w.table
                  /\ books' = IF w.result = "True"
                              THEN (isbn :> Book(total_copies)) @@ books
                              ELSE books
                  /\ last' = Call("add_book", w.result = "True", w.result = "raise",
                                  IF w.result = "raise" THEN fault ELSE w.result,
                                  NoFine, NoBook)

\* Library.add_member(member_id, ...)
add_member(member_id) ==
    /\ UNCHANGED <<books, db_books, borrowing_records, now>>
    /\ IF member_id \in DOMAIN members
       THEN /\ last' = Call("add_member", FALSE, FALSE, "False", NoFine, NoBook)
            /\ UNCHANGED <<members, db_members>>
       ELSE \E fault \in Faults :
              LET w == db_add_member(db_members, member_id, fault)
              IN  /\ db_members' = w.table
                  /\ members' = IF w.result = "True"
                                THEN (member_id :> Member(TRUE, 0)) @@ members
                                ELSE members
                  /\ last' = Call("add_member", w.result = "True", w.result = "raise",
                                  IF w.result = "raise" THEN fault ELSE w.result,
                                  NoFine, NoBook)

\* borrow_book looking the book up before the member
borrow_book_book_first(member_id, isbn) ==
    /\ UNCHANGED <<db_books, db_members, now>>
    /\ IF isbn \notin DOMAIN books
       THEN /\ last' = Call("borrow_book", FALSE, FALSE, "Book not found", NoFine, NoBook)
            /\ UNCHANGED <<books, members, borrowing_records>>
       ELSE IF member_id \notin DOMAIN members
       THEN /\ last' = Call("borrow_book", FALSE, FALSE, "Member not found", NoFine, NoBook)
            /\ UNCHANGED <<books, members, borrowing_records>>
       ELSE IF ~members[member_id].is_active
       THEN /\ last' = Call("borrow_book", FALSE, FALSE, "Member is not active",
                            NoFine, NoBook)
            /\ UNCHANGED <<books, members, borrowing_records>>
       ELSE LET bc == borrow_copy(books[isbn])
            IN  IF ~bc.ok
                THEN /\ books' = [books EXCEPT ![isbn] = bc.book]
                     /\ last' = Call("borrow_book", FALSE, FALSE, "Book not available",
                                     NoFine, NoBook)
                     /\ UNCHANGED <<members, borrowing_records>>
                ELSE \E fault \in Faults :
                       LET mem == add_borrowed_book(members[member_id], isbn)
                           due_date == now + PeriodTicks
                           w == record_borrowing(borrowing_records, member_id, isbn,
                                                 due_date, now, fault)
                       IN  /\ Len(w.records) <= MaxRecords
                           /\ borrowing_records' = w.records
                           /\ IF w.ok
                              THEN /\ books' = [books EXCEPT ![isbn] = bc.book]
                                   /\ members' = [members EXCEPT ![member_id] = mem]
                                   /\ last' = Call("borrow_book", TRUE, FALSE,
                                                   "borrowed successfully", NoFine,
                                                   books[isbn].available_copies)
                              ELSE \* Revert changes if database operation failed
                                   /\ books' = [books EXCEPT
                                                  ![isbn] = return_copy(bc.book).book]
                                   /\ members' = [members EXCEPT ![member_id] =
                                                    remove_borrowed_book(mem, isbn).member]
                                   /\ last' = Call("borrow_book", FALSE, FALSE,
                                                   "Failed to record borrowing", NoFine,
                                                   books[isbn].available_copies)

\* Library.borrow_book(member_id, isbn); fault is what the INSERT of
\* Database.record_borrowing runs into
borrow_book(member_id, isbn) ==
    /\ UNCHANGED <<db_books, db_members, now>>
    /\ IF member_id \notin DOMAIN members
       THEN /\ last' = Call("borrow_book", FALSE, FALSE, "Member not found", NoFine, NoBook)
            /\ UNCHANGED <<books, members, borrowing_records>>
       ELSE IF isbn \notin DOMAIN books
       THEN /\ last' = Call("borrow_book", FALSE, FALSE, "Book not found", NoFine, NoBook)
            /\ UNCHANGED <<books, members, borrowing_records>>
       ELSE IF ~members[member_id].is_active
       THEN /\ last' = Call("borrow_book", FALSE, FALSE, "Member is not active",
                            NoFine, NoBook)
            /\ UNCHANGED <<books, members, borrowing_records>>
       ELSE LET bc == borrow_copy(books[isbn])
            IN  IF ~bc.ok
                THEN /\ books' = [books EXCEPT ![isbn] = bc.book]
                     /\ last' = Call("borrow_book", FALSE, FALSE, "Book not available",
                                     NoFine, NoBook)
                     /\ UNCHANGED <<members, borrowing_records>>
                ELSE \E fault \in Faults :
                       LET mem == add_borrowed_book(members[member_id], isbn)
                           due_date == now + PeriodTicks
                           w == record_borrowing(borrowing_records, member_id, isbn,
                                                 due_date, now, fault)
                       IN  /\ Len(w.records) <= MaxRecords
                           /\ borrowing_records' = w.records
                           /\ IF w.ok
                              THEN /\ books' = [books EXCEPT ![isbn] = bc.book]
                                   /\ members' = [members EXCEPT ![member_id] = mem]
                                   /\ last' = Call("borrow_book", TRUE, FALSE,
                                                   "borrowed successfully", NoFine,
                                                   books[isbn].available_copies)
                              ELSE \* Revert changes if database operation failed
                                   /\ books' = [books EXCEPT
                                                  ![isbn] = return_copy(bc.book).book]
                                   /\ members' = [members EXCEPT ![member_id] =
                                                    remove_borrowed_book(mem, isbn).member]
                                   /\ last' = Call("borrow_book", FALSE, FALSE,
                                                   "Failed to record borrowing", NoFine,
                                                   books[isbn].available_copies)

\* Library.return_book(member_id, isbn); qfault is what the SELECT of
\* _calculate_fine runs into (it has no try/except), wfault what the UPDATE
\* of Database.record_return runs into
return_book(member_id, isbn) ==
    /\ UNCHANGED <<db_books, db_members, now>>
    /\ IF member_id \notin DOMAIN members
       THEN /\ last' = Call("return_book", FALSE, FALSE, "Member not found", NoFine, NoBook)
            /\ UNCHANGED <<books, members, borrowing_records>>
       ELSE IF isbn \notin DOMAIN books
       THEN /\ last' = Call("return_book", FALSE, FALSE, "Book not found", NoFine, NoBook)
            /\ UNCHANGED <<books, members, borrowing_records>>
       ELSE LET rm == remove_borrowed_book(members[member_id], isbn)
            IN  IF ~rm.ok
                THEN /\ members' = [members EXCEPT ![member_id] = rm.member]
                     /\ last' = Call("return_book", FALSE, FALSE,
                                     "This book was not borrowed by this member",
                                     NoFine, NoBook)
                     /\ UNCHANGED <<books, borrowing_records>>
                ELSE /\ books' = [books EXCEPT ![isbn] = return_copy(@).book]
                     /\ \E qfault \in {"none", "OperationalError"} :
                          IF qfault # "none"
                          THEN \* the exception leaves return_book here
                               /\ members' = [members EXCEPT ![member_id] = rm.member]
                               /\ UNCHANGED borrowing_records
                               /\ last' = Call("return_book", FALSE, TRUE, qfault, NoFine,
                                               books[isbn].available_copies)
                          ELSE \E fine \in calculate_fine(borrowing_records, member_id,
                                                          isbn, now), wfault \in Faults :
                                 LET mem == IF fine > 0 THEN add_fine(rm.member, fine)
                                                        ELSE rm.member
                                     w == record_return(borrowing_records, member_id,
                                                        isbn, fine, now, wfault)
                                 IN  /\ members' = [members EXCEPT ![member_id] = mem]
                                     /\ borrowing_records' = w.records
                                     /\ last' = Call("return_book", w.ok, FALSE,
                                                     IF w.ok THEN "returned successfully"
                                                     ELSE "Failed to record return", fine,
                                                     books[isbn].available_copies)

\* time passes between two calls
Tick ==
    /\ \E d \in ClockSteps : now + d <= MaxTime /\ now' = now + d
    /\ UNCHANGED <<books, members, db_books, db_members, borrowing_records, last>>
    /\ UNCHANGED <<frames, overlapped>>

AddBook ==
    /\ \E i \in ISBNS, n \in 0..MaxCopies : add_book(i, n)
    /\ UNCHANGED <<frames, overlapped>>
AddMember ==
    /\ \E m \in MEMBER_IDS : add_member(m)
    /\ UNCHANGED <<frames, overlapped>>
BorrowBook ==
    /\ \E m \in MEMBER_IDS, i \in ISBNS : borrow_book(m, i)
    /\ UNCHANGED <<frames, overlapped>>
ReturnBook ==
    /\ \E m \in MEMBER_IDS, i \in ISBNS : return_book(m, i)
    /\ UNCHANGED <<frames, overlapped>>

Next == AddBook \/ AddMember \/ BorrowBook \/ ReturnBook \/ Tick

Spec == Init /\ [][Next]_vars

\* the executions in which no store call of borrow_book or return_book fails:
\* no INSERT or UPDATE is refused and no SELECT raises
StoreCallFailed(call) ==
    \/ call.raised
    \/ call.msg \in {"Failed to record borrowing", "Failed to record return"}

BorrowBookStoreOk == BorrowBook /\ ~StoreCallFailed(last')
ReturnBookStoreOk == ReturnBook /\ ~StoreCallFailed(last')

StoreOkNext == AddBook \/ AddMember \/ BorrowBookStoreOk \/ ReturnBookStoreOk \/ Tick

SpecStoreOk == Init /\ [][StoreOkNext]_vars

\* ------------------------------------------- the entities called directly
\* Book.borrow_copy() / Book.return_copy() on a book of the library, by a
\* caller that holds the entity
BookBorrowCopy ==
    /\ \E i \in DOMAIN books :
         LET r == borrow_copy(books[i])
         IN  /\ books' = [books EXCEPT ![i] = r.book]
             /\ last' = Call("Book.borrow_copy", r.ok, FALSE,
                             IF r.ok THEN "True" ELSE "False", NoFine,
                             books[i].available_copies)
    /\ UNCHANGED <<members, db_books, db_members, borrowing_records, now>>
    /\ UNCHANGED <<frames, overlapped>>

BookReturnCopy ==
    /\ \E i \in DOMAIN books :
         LET r == return_copy(books[i])
         IN  /\ books' = [books EXCEPT ![i] = r.book]
             /\ last' = Call("Book.return_copy", r.ok, FALSE,
                             IF r.ok THEN "True" ELSE "False", NoFine,
                             books[i].available_copies)
    /\ UNCHANGED <<members, db_books, db_members, borrowing_records, now>>
    /\ UNCHANGED <<frames, overlapped>>

\* the clock plays no part in the copy counts: no Tick here
EntityNext ==
    AddBook \/ AddMember \/ BorrowBook \/ ReturnBook \/ BookBorrowCopy \/ BookReturnCopy

SpecEntity == Init /\ [][EntityNext]_vars

\* Member.add_borrowed_book / remove_borrowed_book / add_fine / pay_fine on a
\* member of the library, by a caller that holds the entity; amounts are not
\* negative
Member_add_borrowed_book(member_id, book_id) ==
    /\ member_id \in DOMAIN members
    /\ members' = [members EXCEPT ![member_id] = add_borrowed_book(@, book_id)]
    /\ last' = Call("Member.add_borrowed_book", TRUE, FALSE, "None", NoFine, NoBook)
    /\ UNCHANGED <<books, db_books, db_members, borrowing_records, now>>

Member_remove_borrowed_book(member_id, book_id) ==
    /\ member_id \in DOMAIN members
    /\ LET r == remove_borrowed_book(members[member_id], book_id)
       IN  /\ members' = [members EXCEPT ![member_id] = r.member]
           /\ last' = Call("Member.remove_borrowed_book", r.ok, FALSE,
                           IF r.ok THEN "True" ELSE "False", NoFine, NoBook)
    /\ UNCHANGED <<books, db_books, db_members, borrowing_records, now>>

Member_add_fine(member_id, amount) ==
    /\ member_id \in DOMAIN members
    /\ members[member_id].total_fines + amount <= MaxFines
    /\ members' = [members EXCEPT ![member_id] = add_fine(@, amount)]
    /\ last' = Call("Member.add_fine", TRUE, FALSE, "None", NoFine, NoBook)
    /\ UNCHANGED <<books, db_books, db_members, borrowing_records, now>>

Member_pay_fine(member_id, amount) ==
    /\ member_id \in DOMAIN members
    /\ LET r == pay_fine(members[member_id], amount)
       IN  /\ members' = [members EXCEPT ![member_id] = r.member]
           /\ last' = Call("Member.pay_fine", r.ok, FALSE,
                           IF r.ok THEN "True" ELSE "False", NoFine, NoBook)
    /\ UNCHANGED <<books, db_books, db_members, borrowing_records, now>>

MemberAddBorrowedBook ==
    /\ \E m \in MEMBER_IDS, b \in BOOK_IDS : Member_add_borrowed_book(m, b)
    /\ UNCHANGED <<frames, overlapped>>
MemberRemoveBorrowedBook ==
    /\ \E m \in MEMBER_IDS, b \in BOOK_IDS : Member_remove_borrowed_book(m, b)
    /\ UNCHANGED <<frames, overlapped>>
MemberAddFine ==
    /\ \E m \in MEMBER_IDS, a \in 0..MaxFines : Member_add_fine(m, a)
    /\ UNCHANGED <<frames, overlapped>>
MemberPayFine ==
    /\ \E m \in MEMBER_IDS, a \in 0..(MaxFines + 1) : Member_pay_fine(m, a)
    /\ UNCHANGED <<frames, overlapped>>

MemberNext ==
    \/ AddMember
    \/ MemberAddBorrowedBook
    \/ MemberRemoveBorrowedBook
    \/ MemberAddFine
    \/ MemberPayFine

SpecMember == Init /\ [][MemberNext]_vars

\* --------------------------------------------- Library.get_library_stats
RECURSIVE Sum(_, _)
\* sum(f[x] for x in S)
Sum(f, S) ==
    IF S = {} THEN 0
    ELSE LET x == CHOOSE y \in S : TRUE IN f[x] + Sum(f, S \ {x})

\* get_library_stats summing the copies on the shelf as the borrowed ones
get_library_stats_sums_available ==
    LET total_books == Sum([i \in DOMAIN books |-> books[i].total_copies], DOMAIN books)
        borrowed_books == Sum([i \in DOMAIN books |-> books[i].available_copies],
                              DOMAIN books)
    IN  [total_members |-> Cardinality(DOMAIN members),
         active_members |-> Cardinality({m \in DOMAIN members : members[m].is_active}),
         total_books_inventory |-> total_books,
         borrowed_books |-> borrowed_books,
         available_books |-> total_books - borrowed_books,
         unique_titles |-> Cardinality(DOMAIN books)]

get_library_stats ==
    LET total_books == Sum([i \in DOMAIN books |-> books[i].total_copies], DOMAIN books)
        borrowed_books ==
            Sum([i \in DOMAIN books |->
                   books[i].total_copies - books[i].available_copies], DOMAIN books)
    IN  [total_members |-> Cardinality(DOMAIN members),
         active_members |-> Cardinality({m \in DOMAIN members : members[m].is_active}),
         total_books_inventory |-> total_books,
         borrowed_books |-> borrowed_books,
         available_books |-> total_books - borrowed_books,
         unique_titles |-> Cardinality(DOMAIN books)]

GetLibraryStats ==
    /\ last' = [Call("get_library_stats", TRUE, FALSE, "stats", NoFine, NoBook)
                   EXCEPT !.stats = get_library_stats]
    /\ UNCHANGED <<books, members, db_books, db_members, borrowing_records, now>>
    /\ UNCHANGED <<frames, overlapped>>

\* a library holding any books of STATS_ISBNS, each with some of its copies
\* out, and any members, active or not; the tables hold what add_book and
\* add_member wrote
InitStats ==
    /\ \E S \in SUBSET STATS_ISBNS :
         \E total \in [S -> 0..MaxCopies] :
            \E out \in [S -> 0..MaxCopies] :
               /\ \A i \in S : out[i] <= total[i]
               /\ books = [i \in S |-> [total_copies |-> total[i],
                                        available_copies |-> total[i] - out[i]]]
               /\ db_books = [i \in S |-> Book(total[i])]
    /\ \E S \in SUBSET MEMBER_IDS :
         \E act \in [S -> BOOLEAN] :
            /\ db_members = [m \in S |-> [is_active |-> act[m], total_fines |-> 0]]
            /\ members = load_members(db_members)
    /\ borrowing_records = <<>>
    /\ now = 0
    /\ last = [Call("none", TRUE, FALSE, "", NoFine, NoBook) EXCEPT !.stats = NoStats]
    /\ OneCaller

SpecStats == InitStats /\ [][GetLibraryStats]_vars

\* ------------------------------- borrow_book / return_book, statement by
\* ------------------------------- statement, by callers that share a Library
\* A caller runs one statement of its call per step, and any caller that is
\* in a call may run next; a caller makes at most MaxCalls calls.  frames[t].pc is the line the caller t runs next:
\* "borrow_book:134" is line 134 of library.py; the ":test", ":load" and
\* ":store" positions are inside the Book method that line calls (the test of
\* its if, the read and the write of its -= or +=).
Others(t) == CALLERS \ {t}

\* the caller enters a method of the Library, at its first line pc
Enter(t, pc, member_id, isbn) ==
    /\ frames[t].calls < MaxCalls
    /\ frames' = [frames EXCEPT ![t] = [Idle EXCEPT !.pc = pc, !.member_id = member_id,
                                                    !.isbn = isbn, !.calls = frames[t].calls + 1]]
    /\ overlapped' = (overlapped \/ \E u \in Others(t) : frames[u].pc # "idle")
    /\ UNCHANGED <<books, members, db_books, db_members, borrowing_records, now, last>>

\* the caller goes on to the line pc
Goto(t, pc) ==
    /\ frames' = [frames EXCEPT ![t].pc = pc]
    /\ UNCHANGED <<last, overlapped>>

\* the call returns (success, message), or an exception leaves it; last
\* keeps to the calls that run in one step
Return(t, op, ok, raised, msg) ==
    /\ frames' = [frames EXCEPT ![t] = [Idle EXCEPT !.calls = frames[t].calls]]
    /\ UNCHANGED <<last, overlapped>>

\* lines 122-132 of borrow_book
BorrowBookChecks(t) ==
    /\ frames[t].pc = "borrow_book:122"
    /\ UNCHANGED <<books, members, db_books, db_members, borrowing_records, now>>
    /\ IF frames[t].member_id \notin DOMAIN members
       THEN Return(t, "borrow_book", FALSE, FALSE, "Member not found")
       ELSE IF frames[t].isbn \notin DOMAIN books
       THEN Return(t, "borrow_book", FALSE, FALSE, "Book not found")
       ELSE IF ~members[frames[t].member_id].is_active
       THEN Return(t, "borrow_book", FALSE, FALSE, "Member is not active")
       ELSE Goto(t, "borrow_book:134:test")

\* the test of borrow_copy letting a caller take a copy of a book that has none
borrow_copy_test_passes_at_zero(b) == b.available_copies >= 0

\* Book.borrow_copy, line 48: if self.available_copies > 0
borrow_copy_test(b) == b.available_copies > 0

\* line 134 of borrow_book, the test of borrow_copy
BorrowCopyTest(t) ==
    /\ frames[t].pc = "borrow_book:134:test"
    /\ UNCHANGED <<books, members, db_books, db_members, borrowing_records, now>>
    /\ IF borrow_copy_test(books[frames[t].isbn])
       THEN Goto(t, "borrow_book:134:load")
       ELSE Return(t, "borrow_book", FALSE, FALSE, "Book not available")

\* self.available_copies -= 1 and += 1 read the attribute ...
CopyLoad(t) ==
    /\ frames[t].pc \in {"borrow_book:134:load", "borrow_book:144:load",
                         "return_book:170:load"}
    /\ frames' = [frames EXCEPT
                    ![t].tmp = books[frames[t].isbn].available_copies,
                    ![t].pc = CASE @ = "borrow_book:134:load" -> "borrow_book:134:store"
                                [] @ = "borrow_book:144:load" -> "borrow_book:144:store"
                                [] @ = "return_book:170:load" -> "return_book:170:store"]
    /\ UNCHANGED <<books, members, db_books, db_members, borrowing_records, now, last,
                   overlapped>>

\* ... and write it back one lower (Book.borrow_copy, line 49)
BorrowCopyStore(t) ==
    /\ frames[t].pc = "borrow_book:134:store"
    /\ books' = [books EXCEPT ![frames[t].isbn].available_copies = frames[t].tmp - 1]
    /\ frames' = [frames EXCEPT ![t].pc = "borrow_book:137", ![t].tmp = NULL]
    /\ UNCHANGED <<members, db_books, db_members, borrowing_records, now, last,
                   overlapped>>

\* line 137 of borrow_book
BorrowBookAdd(t) ==
    /\ frames[t].pc = "borrow_book:137"
    /\ members' = [members EXCEPT ![frames[t].member_id] =
                     add_borrowed_book(@, frames[t].isbn)]
    /\ Goto(t, "borrow_book:138")
    /\ UNCHANGED <<books, db_books, db_members, borrowing_records, now>>

\* lines 138-141 of borrow_book
BorrowBookRecord(t) ==
    /\ frames[t].pc = "borrow_book:138"
    /\ \E fault \in Faults :
         LET w == record_borrowing(borrowing_records, frames[t].member_id,
                                   frames[t].isbn, now + PeriodTicks, now, fault)
         IN  /\ Len(w.records) <= MaxRecords
             /\ borrowing_records' = w.records
             /\ IF w.ok
                THEN Return(t, "borrow_book", TRUE, FALSE, "borrowed successfully")
                ELSE Goto(t, "borrow_book:144:test")
    /\ UNCHANGED <<books, members, db_books, db_members, now>>

\* Book.return_copy, line 59: if self.available_copies < self.total_copies
return_copy_test(b) == b.available_copies < b.total_copies

\* line 144 of borrow_book and line 170 of return_book, the test of return_copy
ReturnCopyTest(t) ==
    /\ frames[t].pc \in {"borrow_book:144:test", "return_book:170:test"}
    /\ Goto(t, CASE frames[t].pc = "borrow_book:144:test" ->
                      IF return_copy_test(books[frames[t].isbn])
                      THEN "borrow_book:144:load" ELSE "borrow_book:145"
                 [] frames[t].pc = "return_book:170:test" ->
                      IF return_copy_test(books[frames[t].isbn])
                      THEN "return_book:170:load" ELSE "return_book:171")
    /\ UNCHANGED <<books, members, db_books, db_members, borrowing_records, now>>

\* the write of self.available_copies += 1 (Book.return_copy, line 60)
ReturnCopyStore(t) ==
    /\ frames[t].pc \in {"borrow_book:144:store", "return_book:170:store"}
    /\ books' = [books EXCEPT ![frames[t].isbn].available_copies = frames[t].tmp + 1]
    /\ frames' = [frames EXCEPT
                    ![t].tmp = NULL,
                    ![t].pc = IF @ = "borrow_book:144:store" THEN "borrow_book:145"
                                                             ELSE "return_book:171"]
    /\ UNCHANGED <<members, db_books, db_members, borrowing_records, now, last,
                   overlapped>>

\* lines 145-146 of borrow_book
BorrowBookRevert(t) ==
    /\ frames[t].pc = "borrow_book:145"
    /\ members' = [members EXCEPT ![frames[t].member_id] =
                     remove_borrowed_book(@, frames[t].isbn).member]
    /\ Return(t, "borrow_book", FALSE, FALSE, "Failed to record borrowing")
    /\ UNCHANGED <<books, db_books, db_members, borrowing_records, now>>

\* lines 158-162 of return_book
ReturnBookChecks(t) ==
    /\ frames[t].pc = "return_book:158"
    /\ UNCHANGED <<books, members, db_books, db_members, borrowing_records, now>>
    /\ IF frames[t].member_id \notin DOMAIN members
       THEN Return(t, "return_book", FALSE, FALSE, "Member not found")
       ELSE IF frames[t].isbn \notin DOMAIN books
       THEN Return(t, "return_book", FALSE, FALSE, "Book not found")
       ELSE Goto(t, "return_book:167")

\* lines 167-168 of return_book
ReturnBookRemove(t) ==
    /\ frames[t].pc = "return_book:167"
    /\ LET rm == remove_borrowed_book(members[frames[t].member_id], frames[t].isbn)
       IN  /\ members' = [members EXCEPT ![frames[t].member_id] = rm.member]
           /\ IF rm.ok
              THEN Goto(t, "return_book:170:test")
              ELSE Return(t, "return_book", FALSE, FALSE,
                          "This book was not borrowed by this member")
    /\ UNCHANGED <<books, db_books, db_members, borrowing_records, now>>

\* line 171 of return_book: the query of _calculate_fine answers, or its
\* exception leaves return_book
ReturnBookCalculateFine(t) ==
    /\ frames[t].pc = "return_book:171"
    /\ \E qfault \in {"none", "OperationalError"} :
         IF qfault # "none"
         THEN Return(t, "return_book", FALSE, TRUE, qfault)
         ELSE /\ \E fine \in calculate_fine(borrowing_records, frames[t].member_id,
                                            frames[t].isbn, now) :
                   frames' = [frames EXCEPT ![t].fine = fine, ![t].pc = "return_book:173"]
              /\ UNCHANGED <<last, overlapped>>
    /\ UNCHANGED <<books, members, db_books, db_members, borrowing_records, now>>

\* lines 173-174 of return_book
ReturnBookAddFine(t) ==
    /\ frames[t].pc = "return_book:173"
    /\ members' = [members EXCEPT ![frames[t].member_id] =
                     IF frames[t].fine > 0 THEN add_fine(@, frames[t].fine) ELSE @]
    /\ Goto(t, "return_book:176")
    /\ UNCHANGED <<books, db_books, db_members, borrowing_records, now>>

\* lines 176-182 of return_book
ReturnBookRecord(t) ==
    /\ frames[t].pc = "return_book:176"
    /\ \E wfault \in Faults :
         LET w == record_return(borrowing_records, frames[t].member_id, frames[t].isbn,
                                frames[t].fine, now, wfault)
         IN  /\ borrowing_records' = w.records
             /\ Return(t, "return_book", w.ok, FALSE,
                       IF w.ok THEN "returned successfully" ELSE "Failed to record return")
    /\ UNCHANGED <<books, members, db_books, db_members, now>>

\* a caller that is in no call calls borrow_book / return_book
CallBorrowBook ==
    \E t \in CALLERS, m \in MEMBER_IDS, i \in ISBNS :
        frames[t].pc = "idle" /\ Enter(t, "borrow_book:122", m, i)
CallReturnBook ==
    \E t \in CALLERS, m \in MEMBER_IDS, i \in ISBNS :
        frames[t].pc = "idle" /\ Enter(t, "return_book:158", m, i)
StepBorrowBookChecks == \E t \in CALLERS : BorrowBookChecks(t)
StepBorrowCopyTest == \E t \in CALLERS : BorrowCopyTest(t)
StepCopyLoad == \E t \in CALLERS : CopyLoad(t)
StepBorrowCopyStore == \E t \in CALLERS : BorrowCopyStore(t)
StepBorrowBookAdd == \E t \in CALLERS : BorrowBookAdd(t)
StepBorrowBookRecord == \E t \in CALLERS : BorrowBookRecord(t)
StepReturnCopyTest == \E t \in CALLERS : ReturnCopyTest(t)
StepReturnCopyStore == \E t \in CALLERS : ReturnCopyStore(t)
StepBorrowBookRevert == \E t \in CALLERS : BorrowBookRevert(t)
StepReturnBookChecks == \E t \in CALLERS : ReturnBookChecks(t)
StepReturnBookRemove == \E t \in CALLERS : ReturnBookRemove(t)
StepReturnBookCalculateFine == \E t \in CALLERS : ReturnBookCalculateFine(t)
StepReturnBookAddFine == \E t \in CALLERS : ReturnBookAddFine(t)
StepReturnBookRecord == \E t \in CALLERS : ReturnBookRecord(t)

CallersNext ==
    \/ CallBorrowBook
    \/ CallReturnBook
    \/ StepBorrowBookChecks
    \/ StepBorrowCopyTest
    \/ StepCopyLoad
    \/ StepBorrowCopyStore
    \/ StepBorrowBookAdd
    \/ StepBorrowBookRecord
    \/ StepReturnCopyTest
    \/ StepReturnCopyStore
    \/ StepBorrowBookRevert
    \/ StepReturnBookChecks
    \/ StepReturnBookRemove
    \/ StepReturnBookCalculateFine
    \/ StepReturnBookAddFine
    \/ StepReturnBookRecord

\* a library that holds every book of ISBNS, with all its copies on the
\* shelf, and every member of MEMBER_IDS, all active: the state after the
\* add_book and add_member calls that registered them
InitCallers ==
    /\ \E total \in [ISBNS -> 1..MaxCopies] :
         db_books = [i \in ISBNS |-> Book(total[i])]
    /\ db_members = [m \in MEMBER_IDS |-> [is_active |-> TRUE, total_fines |-> 0]]
    /\ borrowing_records = <<>>
    /\ books = load_books(db_books)
    /\ members = load_members(db_members)
    /\ now = 0
    /\ last = Call("none", TRUE, FALSE, "", NoFine, NoBook)
    /\ OneCaller

SpecCallers == InitCallers /\ [][CallersNext]_vars

\* ================================================================= claims

\* C1: for every book, 0 <= available_copies <= total_copies after any
\* sequence of Book.borrow_copy / Book.return_copy calls and of borrow_book /
\* return_book calls, whatever the store writes do.
C1_CopiesInRange ==
    \A i \in DOMAIN books :
        /\ 0 <= books[i].available_copies
        /\ books[i].available_copies <= books[i].total_copies

\* a return_copy refused on a book whose copies are all in, one copy lent before
C1_Witness ==
    /\ last.op = "Book.return_copy"
    /\ ~last.ok
    /\ \E i \in DOMAIN books :
         /\ books[i].total_copies > 0
         /\ books[i].available_copies = books[i].total_copies
    /\ Len(borrowing_records) > 0

\* C2: a borrow_book whose store write fails ("Failed to record borrowing")
\* leaves every book's available_copies and every member's borrowed_books as
\* they were before the call.
C2_RollbackRestores ==
    [][(last'.op = "borrow_book" /\ last'.msg = "Failed to record borrowing")
          => (books' = books /\ members' = members)]_vars

\* C3: the store holds at most one open borrowing record (return_date = null)
\* for each (member_id, isbn) pair.
C3_OneOpenRecordPerPair ==
    \A m \in MEMBER_IDS, i \in ISBNS :
        Cardinality(OpenRecords(borrowing_records, m, i)) <= 1

PreconditionMessages ==
    {"Member not found", "Book not found", "Member is not active",
     "Book not available", "This book was not borrowed by this member"}

\* C4: a borrow_book or return_book that fails with a not-found or
\* precondition message changes no book, no member and no borrowing record.
C4_FailedChecksMutateNothing ==
    [][(last'.op \in {"borrow_book", "return_book"} /\ last'.msg \in PreconditionMessages)
          => UNCHANGED <<books, members, db_books, db_members, borrowing_records>>]_vars

\* a borrow refused for want of a copy while a member holds the book
C4_Witness ==
    /\ last.op = "borrow_book"
    /\ last.msg = "Book not available"
    /\ \E m \in DOMAIN members : members[m].borrowed_books # <<>>

\* C5: borrow_book by a known active member of a known book: while
\* available_copies > 0 it fails only if the store write fails, and a success
\* takes exactly one copy; at available_copies = 0 it fails with "Book not
\* available" and leaves available_copies at 0.
C5_BorrowTakesOneCopy ==
    [][\A m \in MEMBER_IDS, i \in ISBNS :
         (/\ last'.op = "borrow_book"
          /\ m \in DOMAIN members
          /\ i \in DOMAIN books
          /\ members[m].is_active
          /\ borrow_book(m, i))
         => IF books[i].available_copies > 0
            THEN /\ last'.msg \in {"borrowed successfully", "Failed to record borrowing"}
                 /\ last'.ok <=> last'.msg = "borrowed successfully"
                 /\ last'.ok => books'[i].available_copies = books[i].available_copies - 1
                 /\ \A j \in DOMAIN books \ {i} : books'[j] = books[j]
            ELSE /\ ~last'.ok
                 /\ last'.msg = "Book not available"
                 /\ books'[i].available_copies = 0]_vars

\* all N = 2 copies of a book lent, and the next borrow refused
C5_Witness ==
    /\ last.op = "borrow_book"
    /\ last.msg = "Book not available"
    /\ \E i \in DOMAIN books :
         /\ books[i].total_copies = 2
         /\ books[i].available_copies = 0
         /\ Cardinality({k \in 1..Len(borrowing_records) :
                           /\ borrowing_records[k].isbn = i
                           /\ borrowing_records[k].return_date = NULL}) = 2

\* C6: every isbn in a member's borrowed_books has an open borrowing record
\* of that member in the store.
C6_BorrowedBooksAreCheckedOut ==
    \A m \in DOMAIN members :
        \A i \in Range(members[m].borrowed_books) :
            OpenRecords(borrowing_records, m, i) # {}

\* a member still holds a book after another loan was returned and recorded
C6_Witness ==
    /\ last.op = "return_book"
    /\ last.ok
    /\ \E m \in DOMAIN members : members[m].borrowed_books # <<>>

\* C7: a successful return_book(member, isbn) writes return_date and
\* fine_paid to exactly one record, the most recent open record of the pair,
\* and leaves every other record unchanged.
C7_ReturnClosesOneRecord ==
    [][\A m \in MEMBER_IDS, i \in ISBNS :
         (last'.op = "return_book" /\ last'.ok /\ return_book(m, i))
         => \E k \in MostRecentOpen(borrowing_records, m, i) :
               /\ borrowing_records'[k].return_date # NULL
               /\ \A j \in 1..Len(borrowing_records) :
                     j # k => borrowing_records'[j] = borrowing_records[j]]_vars

\* C8: the fine of return_book is 0 when the pair has no open record or the
\* most recent open record is not past its due date; otherwise it is the
\* whole days elapsed since the due date times DAILY_FINE; the member's
\* total_fines grows by exactly the fine.
C8_FineIsWholeDaysOverdue ==
    [][\A m \in MEMBER_IDS, i \in ISBNS :
         (last'.op = "return_book" /\ last'.fine # NoFine /\ return_book(m, i))
         => /\ members'[m].total_fines = members[m].total_fines + last'.fine
            /\ IF OpenRecords(borrowing_records, m, i) = {}
               THEN last'.fine = 0
               ELSE \E k \in MostRecentOpen(borrowing_records, m, i) :
                      IF now <= borrowing_records[k].due_date
                      THEN last'.fine = 0
                      ELSE \E days \in 0..MaxTime :
                             /\ days * TicksPerDay <= now - borrowing_records[k].due_date
                             /\ now - borrowing_records[k].due_date < (days + 1) * TicksPerDay
                             /\ last'.fine = days * DAILY_FINE]_vars

\* a loan returned 14 days and a fraction late: fine 14, total_fines 14
C8_Witness ==
    /\ last.op = "return_book"
    /\ last.fine = 14 * DAILY_FINE
    /\ \E m \in DOMAIN members : members[m].total_fines = 14 * DAILY_FINE
    /\ \E k \in 1..Len(borrowing_records) :
         /\ borrowing_records[k].return_date > borrowing_records[k].due_date
         /\ borrowing_records[k].fine_paid = 14 * DAILY_FINE

\* C9: borrow_book(member, isbn) succeeding and return_book(member, isbn)
\* following it at once, at the same clock reading: the fine is 0, total_fines
\* is what it was before the borrow and available_copies is back at the value
\* the borrow found.
C9_BorrowThenReturn ==
    [][\A m \in MEMBER_IDS, i \in ISBNS :
         /\ (last'.op = "borrow_book" /\ last'.ok /\ borrow_book(m, i))
               => members'[m].total_fines = members[m].total_fines
         /\ (/\ last.op = "borrow_book"
             /\ last.ok
             /\ last'.op = "return_book"
             /\ borrowing_records[Len(borrowing_records)].member_id = m
             /\ borrowing_records[Len(borrowing_records)].isbn = i
             /\ borrowing_records[Len(borrowing_records)].borrow_date = now
             /\ return_book(m, i))
               => /\ last'.fine \in {0, NoFine}
                  /\ members'[m].total_fines = members[m].total_fines
                  /\ books'[i].available_copies = last.available_before]_vars

\* the only loan so far was returned at the clock reading it was made at
C9_Witness ==
    /\ last.op = "return_book"
    /\ last.ok
    /\ last.fine = 0
    /\ Len(borrowing_records) = 1
    /\ borrowing_records[1].return_date = borrowing_records[1].borrow_date
    /\ \A i \in DOMAIN books : books[i].available_copies = books[i].total_copies

\* C10: every failure of add_book, add_member, borrow_book or return_book is
\* returned as a failure result: no exception leaves a core operation.
C10_NoExceptionEscapes ==
    ~last.raised

\* C11: add_book / add_member follow the store-then-cache rule: a key already
\* in memory fails without a store write; the entity is created (a book with
\* available_copies = total_copies) only when the store insert succeeded; a
\* failed insert leaves memory unchanged; so every key in memory has a record
\* in the store.
C11_StoreThenCache ==
    [][/\ \A i \in ISBNS, n \in 0..MaxCopies :
            (last'.op = "add_book" /\ add_book(i, n))
            => IF i \in DOMAIN books
               THEN ~last'.ok /\ db_books' = db_books /\ books' = books
               ELSE /\ last'.ok => /\ i \in DOMAIN db_books'
                                   /\ DOMAIN books' = DOMAIN books \cup {i}
                                   /\ books'[i].total_copies = n
                                   /\ books'[i].available_copies = n
                                   /\ \A j \in DOMAIN books : books'[j] = books[j]
                    /\ ~last'.ok => books' = books /\ db_books' = db_books
       /\ \A m \in MEMBER_IDS :
            (last'.op = "add_member" /\ add_member(m))
            => IF m \in DOMAIN members
               THEN ~last'.ok /\ db_members' = db_members /\ members' = members
               ELSE /\ last'.ok => /\ m \in DOMAIN db_members'
                                   /\ DOMAIN members' = DOMAIN members \cup {m}
                                   /\ \A j \in DOMAIN members : members'[j] = members[j]
                    /\ ~last'.ok => members' = members /\ db_members' = db_members
       /\ DOMAIN books' \subseteq DOMAIN db_books'
       /\ DOMAIN members' \subseteq DOMAIN db_members']_vars

\* an add_book whose insert failed, after which the library still has no book
C11_Witness ==
    /\ last.op = "add_book"
    /\ ~last.ok
    /\ DOMAIN books = {}
    /\ DOMAIN db_books = {}

\* C12: a borrowing record never goes from closed back to open: once its
\* return_date is set the record never changes again, and a later borrow adds
\* a new record under a new record_id.
C12_ClosedRecordsAreFinal ==
    [][/\ Len(borrowing_records') >= Len(borrowing_records)
       /\ \A k \in 1..Len(borrowing_records) :
            /\ borrowing_records'[k].record_id = borrowing_records[k].record_id
            /\ borrowing_records[k].return_date # NULL
                  => borrowing_records'[k] = borrowing_records[k]
       /\ (last'.op = "borrow_book" /\ last'.ok /\ BorrowBook)
            => /\ Len(borrowing_records') = Len(borrowing_records) + 1
               /\ borrowing_records'[Len(borrowing_records')].return_date = NULL
               /\ \A k \in 1..Len(borrowing_records) :
                     borrowing_records[k].record_id
                        # borrowing_records'[Len(borrowing_records')].record_id]_vars

\* a member borrowed again the book of a loan that is closed
C12_Witness ==
    /\ last.op = "borrow_book"
    /\ last.ok
    /\ \E j, k \in 1..Len(borrowing_records) :
         /\ j < k
         /\ borrowing_records[j].member_id = borrowing_records[k].member_id
         /\ borrowing_records[j].isbn = borrowing_records[k].isbn
         /\ borrowing_records[j].return_date # NULL
         /\ borrowing_records[k].return_date = NULL

\* C13: a return_book whose store write fails answers "Failed to record
\* return" and rolls nothing back: the isbn stays removed from borrowed_books,
\* available_copies stays incremented, the fine stays added to total_fines and
\* the borrowing record stays open.
C13_ReturnFailureKeepsMutations ==
    [][\A m \in MEMBER_IDS, i \in ISBNS :
         (last'.msg = "Failed to record return" /\ return_book(m, i))
         => /\ ~last'.ok
            /\ i \in Range(members[m].borrowed_books)
            /\ i \notin Range(members'[m].borrowed_books)
            /\ books'[i].available_copies = books[i].available_copies + 1
            /\ members'[m].total_fines = members[m].total_fines + last'.fine
            /\ borrowing_records' = borrowing_records
            /\ OpenRecords(borrowing_records', m, i) # {}]_vars

\* a late return that was fined but not recorded
C13_Witness ==
    /\ last.op = "return_book"
    /\ last.msg = "Failed to record return"
    /\ last.fine > 0
    /\ \E m \in DOMAIN members :
         /\ members[m].total_fines = last.fine
         /\ members[m].borrowed_books = <<>>
         /\ \E i \in ISBNS : OpenRecords(borrowing_records, m, i) # {}

\* C14: total_fines >= 0 after any sequence of add_fine and pay_fine calls;
\* pay_fine(amount) with amount > total_fines returns False and leaves
\* total_fines unchanged, with amount <= total_fines it returns True and
\* takes exactly amount off total_fines.
C14_FinesNeverNegative ==
    [][/\ \A m \in DOMAIN members' : members'[m].total_fines >= 0
       /\ \A m \in MEMBER_IDS, a \in 0..(MaxFines + 1) :
            (last'.op = "Member.pay_fine" /\ Member_pay_fine(m, a))
            => IF a > members[m].total_fines
               THEN ~last'.ok /\ members' = members
               ELSE /\ last'.ok
                    /\ members'[m].total_fines = members[m].total_fines - a
                    /\ \A j \in DOMAIN members \ {m} : members'[j] = members[j]]_vars

\* an overpayment refused on a member who owes something
C14_Witness ==
    /\ last.op = "Member.pay_fine"
    /\ ~last.ok
    /\ \E m \in DOMAIN members : members[m].total_fines > 0

Occurrences(s, x) == Cardinality({k \in 1..Len(s) : s[k] = x})

\* C15: add_borrowed_book is idempotent: after it the isbn occurs exactly
\* once, and a list that held it is left as it was; borrowed_books never holds
\* a duplicate; remove_borrowed_book returns True exactly when the isbn was
\* present, and the isbn is absent afterwards.
C15_BorrowedBooksIsASet ==
    [][/\ \A m \in DOMAIN members', b \in BOOK_IDS :
            Occurrences(members'[m].borrowed_books, b) <= 1
       /\ \A m \in MEMBER_IDS, b \in BOOK_IDS :
            /\ (last'.op = "Member.add_borrowed_book" /\ Member_add_borrowed_book(m, b))
                 => /\ Occurrences(members'[m].borrowed_books, b) = 1
                    /\ b \in Range(members[m].borrowed_books) => members' = members
                    /\ \A c \in BOOK_IDS \ {b} :
                          Occurrences(members'[m].borrowed_books, c)
                             = Occurrences(members[m].borrowed_books, c)
            /\ (last'.op = "Member.remove_borrowed_book"
                   /\ Member_remove_borrowed_book(m, b))
                 => /\ last'.ok <=> b \in Range(members[m].borrowed_books)
                    /\ b \notin Range(members'[m].borrowed_books)
                    /\ \A c \in BOOK_IDS \ {b} :
                          Occurrences(members'[m].borrowed_books, c)
                             = Occurrences(members[m].borrowed_books, c)]_vars

\* a removal reported False on a member who holds the other book
C15_Witness ==
    /\ last.op = "Member.remove_borrowed_book"
    /\ ~last.ok
    /\ \E m \in DOMAIN members : Len(members[m].borrowed_books) = 1
    /\ \E m \in DOMAIN members : Len(members[m].borrowed_books) = 2

\* C16: the in-memory maps stay synchronized with the store: a Library built
\* anew from the same store (_load_from_db) has the same available_copies for
\* every book and the same borrowed_books and total_fines for every member as
\* the running instance, all store writes succeeding.
C16_ReloadGivesSameState ==
    /\ books = load_books(db_books)
    /\ members = load_members(db_members)

\* C17: when no return_book store write fails, each book's borrowed count in
\* memory (total_copies - available_copies) equals the number of open
\* borrowing records of its isbn in the store.
C17_BorrowedCountMatchesOpenRecords ==
    \A i \in DOMAIN books :
        books[i].total_copies - books[i].available_copies
            = Cardinality({k \in 1..Len(borrowing_records) :
                             /\ borrowing_records[k].isbn = i
                             /\ borrowing_records[k].return_date = NULL})

Holders(i) == {m \in DOMAIN members : i \in Range(members[m].borrowed_books)}

\* C18: for every book, the members whose borrowed_books holds its isbn are
\* never more than total_copies - available_copies; so the return_copy call of
\* return_book is never reached with available_copies = total_copies and
\* always adds the copy back.
C18_HoldersWithinBorrowedCopies ==
    [][/\ \A i \in DOMAIN books' :
            Cardinality({m \in DOMAIN members' :
                           i \in Range(members'[m].borrowed_books)})
               <= books'[i].total_copies - books'[i].available_copies
       /\ \A m \in MEMBER_IDS, i \in ISBNS :
            (/\ last'.op = "return_book"
             /\ last'.msg \notin PreconditionMessages
             /\ return_book(m, i))
            => /\ books[i].available_copies < books[i].total_copies
               /\ books'[i].available_copies = books[i].available_copies + 1]_vars

\* a recorded return while another member still holds a copy of the book
C18_Witness ==
    /\ last.op = "return_book"
    /\ last.ok
    /\ \E i \in DOMAIN books :
         /\ Holders(i) # {}
         /\ Cardinality(Holders(i)) = books[i].total_copies - books[i].available_copies

\* C19: borrow_book reports the first check that fails, in this order:
\* "Member not found" (even if the book is absent too), "Book not found",
\* "Member is not active" (even if no copy is available), "Book not
\* available"; an inactive member's borrow changes no available_copies and
\* creates no borrowing record.
C19_BorrowChecksInOrder ==
    [][\A m \in MEMBER_IDS, i \in ISBNS :
         (last'.op = "borrow_book" /\ borrow_book(m, i))
         => IF m \notin DOMAIN members
            THEN last'.msg = "Member not found"
            ELSE IF i \notin DOMAIN books
            THEN last'.msg = "Book not found"
            ELSE IF ~members[m].is_active
            THEN /\ last'.msg = "Member is not active"
                 /\ books' = books
                 /\ borrowing_records' = borrowing_records
            ELSE IF books[i].available_copies = 0
            THEN last'.msg = "Book not available"
            ELSE last'.msg \notin PreconditionMessages]_vars

\* an inactive member turned away from a book that has no copy left
C19_Witness ==
    /\ last.op = "borrow_book"
    /\ last.msg = "Member is not active"
    /\ \E i \in DOMAIN books :
         books[i].total_copies > 0 /\ books[i].available_copies = 0

\* C20: get_library_stats is a pure read: it changes no entity and no table,
\* and it reports borrowed_books = the copies out over all books,
\* total_books_inventory = all copies, available_books + borrowed_books =
\* total_books_inventory, unique_titles = the number of books and
\* active_members <= total_members = the number of members.
C20_StatsArePureAndExact ==
    [][(last'.op = "get_library_stats" /\ GetLibraryStats)
         => /\ UNCHANGED <<books, members, db_books, db_members, borrowing_records, now>>
            /\ ~last'.raised
            /\ last'.stats.total_books_inventory
                  = Cardinality({p \in (DOMAIN books) \X (1..MaxCopies) :
                                   p[2] <= books[p[1]].total_copies})
            /\ last'.stats.borrowed_books
                  = Cardinality({p \in (DOMAIN books) \X (1..MaxCopies) :
                                   p[2] <= books[p[1]].total_copies
                                              - books[p[1]].available_copies})
            /\ last'.stats.available_books + last'.stats.borrowed_books
                  = last'.stats.total_books_inventory
            /\ last'.stats.unique_titles = Cardinality(DOMAIN books)
            /\ last'.stats.total_members = Cardinality(DOMAIN members)
            /\ last'.stats.active_members
                  = Cardinality({m \in DOMAIN members : members[m].is_active})
            /\ last'.stats.active_members <= last'.stats.total_members]_vars

\* statistics of a library with several titles, copies out of two of them and
\* an inactive member
C20_Witness ==
    /\ last.op = "get_library_stats"
    /\ last.stats.unique_titles >= 2
    /\ last.stats.borrowed_books >= 2
    /\ last.stats.available_books >= 1
    /\ last.stats.active_members < last.stats.total_members
    /\ Cardinality({i \in DOMAIN books :
                      books[i].available_copies < books[i].total_copies}) >= 2

\* C21: as long as every call of borrow_book / return_book has run to its
\* return before the next call started, every book keeps
\* 0 <= available_copies <= total_copies; once the statements of two callers
\* interleave, a book can leave that range (C21_Witness).
C21_SerialCallsKeepCopiesInRange ==
    ~overlapped =>
        \A i \in DOMAIN books :
            /\ 0 <= books[i].available_copies
            /\ books[i].available_copies <= books[i].total_copies

\* two callers passed the test of borrow_copy on the last copy before either
\* took it: available_copies is below zero
C21_Witness ==
    /\ overlapped
    /\ \E i \in DOMAIN books : books[i].available_copies < 0
    /\ \A t \in CALLERS : frames[t].pc \in {"idle", "borrow_book:137"}
====
